---- MODULE Spec2Model ----
(***************************************************************************)
(* The IoC container of go-spring (spring-core/gs/gs.go) as a state        *)
(* machine: the registration surface, the phases of Refresh (identity      *)
(* index, configuration filter, conditional resolution with re-entrant     *)
(* lookups, configuration run, wiring), the find query, Close with its     *)
(* destroyers, and the supervised goroutines of Go.                        *)
(***************************************************************************)
EXTENDS Integers, Sequences, FiniteSets, TLC

(* ----------------------------- bounds --------------------------------- *)
MaxBeans == 2
MaxConfigers == 1
MaxTasks == 1
MaxCloses == 2
MaxEntries == 3

(* ------------------------- program constants -------------------------- *)
\* refreshState, gs.go:39-43
Unrefreshed == 0
Refreshing == 1
Refreshed == 2

\* the resolution status of a BeanDefinition, ordered as gs.go:286 compares it
Default == 0
Resolving == 1
Resolved == 2
Deleted == 3

VARIABLES
    state,          \* Container.state
    p,              \* Container.p: the keys the property store holds
    beans,          \* Container.beans: the registered descriptors, in order
    status,         \* BeanDefinition.status of beans[i]
    exports,        \* BeanDefinition.exports of beans[i]
    beansById,      \* Container.beansById: id -> index into beans, 0 = no entry
    beansByName,    \* Container.beansByName: name -> list of indices
    beansByType,    \* Container.beansByType: type -> list of indices
    configers,      \* Container.configers
    configerList,   \* Container.configerList: indices into configers
    destroyerList,  \* Container.destroyerList: the bean each destroyer belongs to
    ctxDone,        \* Container.ctx is cancelled
    wg,             \* Container.wg: the WaitGroup's counter
    tasks,          \* the goroutines started by Go
    rpc,            \* where the goroutine running Refresh stands
    stack,          \* the call stack of resolveBeans / find / resolveBean
    pending,        \* assembly: the destroyers collected while wiring
    cpc,            \* where the goroutine running Close stands
    closeList,      \* the list runDestroyers iterates
    closeIdx,       \* the next element of closeList
    closes,         \* the Close calls accepted so far
    last,           \* history: the last call of the public surface and its outcome
    hist            \* history: what conditions, finds, wiring and destroyers did

vars == <<state, p, beans, status, exports, beansById, beansByName, beansByType,
          configers, configerList, destroyerList, ctxDone, wg, tasks, rpc, stack,
          pending, cpc, closeList, closeIdx, closes, last, hist>>

container == <<state, p, beans, status, exports, beansById, beansByName, beansByType,
               configers, configerList, destroyerList>>
regVars == <<beans, status, exports>>
indexVars == <<beansById, beansByName, beansByType>>
goVars == <<ctxDone, wg, tasks>>
closeVars == <<cpc, closeList, closeIdx, closes>>
refreshVars == <<rpc, stack, pending>>

(* ------------------------- the type universe -------------------------- *)
Names == {"a", "b"}
Keys == {"k"}
Ifaces == {"I", "J"}
\* T1: a struct with an export-tagged interface field I, which it implements;
\* T2: not a struct, implements nothing; T3: a struct whose export tag sits on
\* a field that is no interface; T4 to T7: the structs of StructDefs below.
ConcreteTypes == {"T1", "T2", "T3", "T4", "T5", "T6", "T7"}
TypeKeys == ConcreteTypes \cup Ifaces
Ids == 1..MaxBeans

Implements(t, i) == (t = "T1" /\ i = "I") \/ t = "T4"

(* ------------------------------ helpers ------------------------------- *)
Range(f) == {f[x] : x \in DOMAIN f}

\* reflect.StructField as autoExport reads it: the three tags, Anonymous, and
\* the field's type (its kind and its name).
Field(ex, inj, aw, anon, kind, ftype) ==
    [export |-> ex, inject |-> inj, autowire |-> aw, anonymous |-> anon,
     kind |-> kind, ftype |-> ftype]

\* The struct types of the universe. T1 embeds E1, E1 carries the exported I.
\* T4 embeds M4, which embeds E1, an untagged interface and carries the
\* exported J: a chain of three. T5 has E1 embedded behind an inject tag, E1
\* as a named field and E6 embedded behind an autowire tag. T6 embeds E6,
\* whose interface field is tagged export and inject. T7 exports I and then
\* tags J export and autowire.
StructDefs ==
    [t \in {"T1", "E1", "T3", "T4", "M4", "T5", "T6", "E6", "T7"} |->
        CASE t = "T1" -> <<Field(FALSE, FALSE, FALSE, TRUE, "struct", "E1")>>
          [] t = "E1" -> <<Field(TRUE, FALSE, FALSE, FALSE, "iface", "I")>>
          [] t = "T3" -> <<Field(TRUE, FALSE, FALSE, FALSE, "other", "int")>>
          [] t = "T4" -> <<Field(FALSE, FALSE, FALSE, FALSE, "other", "int"),
                           Field(FALSE, FALSE, FALSE, TRUE, "struct", "M4")>>
          [] t = "M4" -> <<Field(FALSE, FALSE, FALSE, TRUE, "struct", "E1"),
                           Field(FALSE, FALSE, FALSE, TRUE, "iface", "I"),
                           Field(TRUE, FALSE, FALSE, FALSE, "iface", "J")>>
          [] t = "T5" -> <<Field(FALSE, TRUE, FALSE, TRUE, "struct", "E1"),
                           Field(FALSE, FALSE, FALSE, FALSE, "struct", "E1"),
                           Field(FALSE, FALSE, TRUE, TRUE, "struct", "E6")>>
          [] t = "T6" -> <<Field(FALSE, FALSE, FALSE, TRUE, "struct", "E6")>>
          [] t = "E6" -> <<Field(TRUE, TRUE, FALSE, FALSE, "iface", "I")>>
          [] t = "T7" -> <<Field(TRUE, FALSE, FALSE, FALSE, "iface", "I"),
                           Field(TRUE, FALSE, TRUE, FALSE, "iface", "J")>>]

(* ----------------------------- autoExport ----------------------------- *)
\* autoExport looking at the fields of the outermost struct only.
autoExportFrom_Shallow(defs, t, i, ex) ==
    LET tagged == {defs[t][k] : k \in {j \in i..Len(defs[t]) : defs[t][j].export}} IN
    [err |-> \E f \in tagged : f.kind # "iface" \/ f.inject \/ f.autowire,
     exports |-> ex \cup {f.ftype : f \in tagged}]

\* gs.go:327-368. Walks the fields of struct t from field i on; ex is
\* b.exports so far. Returns the error flag and b.exports as the call leaves it.
RECURSIVE autoExportFrom(_, _, _, _)
autoExportFrom(defs, t, i, ex) ==
    IF i > Len(defs[t]) THEN [err |-> FALSE, exports |-> ex]
    ELSE LET f == defs[t][i] IN
         IF ~f.export
         THEN IF ~f.anonymous \/ f.inject \/ f.autowire
              THEN autoExportFrom(defs, t, i + 1, ex)
              ELSE IF f.kind = "struct" /\ f.ftype \in DOMAIN defs
                   THEN LET r == autoExportFrom(defs, f.ftype, 1, ex) IN
                        IF r.err THEN r
                        ELSE autoExportFrom(defs, t, i + 1, r.exports)
                   ELSE autoExportFrom(defs, t, i + 1, ex)
         ELSE IF f.kind # "iface" THEN [err |-> TRUE, exports |-> ex]
              ELSE IF f.inject \/ f.autowire THEN [err |-> TRUE, exports |-> ex]
                   ELSE autoExportFrom(defs, t, i + 1, ex \cup {f.ftype})

autoExport(defs, t, ex) == autoExportFrom(defs, t, 1, ex)

(* ---------------------------- descriptors ----------------------------- *)
\* A condition: none, a property that must be set, a bean that must exist
\* (selected by name or by type), or a bean that must be missing.
NoCond == [k |-> "none", arg |-> ""]
OnProperty(key) == [k |-> "prop", arg |-> key]
OnBeanName(n) == [k |-> "beanName", arg |-> n]
OnBeanType(t) == [k |-> "beanType", arg |-> t]
OnMissingName(n) == [k |-> "missingName", arg |-> n]

Bean(id, name, typ, cond, ex) ==
    [id |-> id, name |-> name, typ |-> typ, cond |-> cond, exports |-> ex]

\* The ids a new descriptor may carry: one already registered (a duplicate) or
\* the next unused one. Identities are opaque, so this loses no case.
NextIds == {b.id : b \in Range(beans)} \cup {Len(beans) + 1}

(* ------------------------------- New ---------------------------------- *)
\* gs.go:80-103 without the OpenPandora option.
Init ==
    /\ state = Unrefreshed
    /\ p = {}
    /\ beans = <<>>
    /\ status = <<>>
    /\ exports = <<>>
    /\ beansById = [i \in Ids |-> 0]
    /\ beansByName = [n \in Names |-> <<>>]
    /\ beansByType = [t \in TypeKeys |-> <<>>]
    /\ configers = <<>>
    /\ configerList = <<>>
    /\ destroyerList = <<>>
    /\ ctxDone = FALSE
    /\ wg = 0
    /\ tasks = [spawned |-> 0, running |-> 0, recovered |-> 0]
    /\ rpc = "idle"
    /\ stack = <<>>
    /\ pending = <<>>
    /\ cpc = "idle"
    /\ closeList = <<>>
    /\ closeIdx = 0
    /\ closes = 0
    /\ last = [op |-> "New", arg |-> "", fault |-> FALSE]
    /\ hist = [evals |-> <<>>, wired |-> <<>>, druns |-> <<>>, ran |-> <<>>,
               found |-> {}, closeRun |-> <<>>, firstErr |-> 0,
               waited |-> FALSE, failed |-> FALSE]

(* --------------------------- phase guards ----------------------------- *)
\* gs.go:106-110: passes unless the state is Unrefreshed.
callAfterRefreshing == state # Unrefreshed

\* callBeforeRefreshing refusing only a container that is Refreshed.
callBeforeRefreshing_UntilRefreshed == state # Refreshed

\* gs.go:113-117: passes only while the state is Unrefreshed.
callBeforeRefreshing == state = Unrefreshed

\* The goroutine that owns the container calls its surface one call at a
\* time: it is not inside Refresh (gs.go:217-249 runs to its end or panics).
callerFree == rpc \in {"idle", "aborted", "done"} /\ stack = <<>>

\* A call that panics in its guard: nothing but the record of the call changes.
Fault(op, arg) ==
    /\ last' = [op |-> op, arg |-> arg, fault |-> TRUE]
    /\ UNCHANGED <<container, goVars, refreshVars, closeVars, hist>>

Accept(op, arg) == last' = [op |-> op, arg |-> arg, fault |-> FALSE]

(* ----------------------- the registration surface --------------------- *)
\* gs.go:120-123. conf.Properties.Load either fails (ok = FALSE) and returns
\* its error, or adds the keys of the file.
Load(ok, ks) ==
    /\ callerFree
    /\ IF ~callBeforeRefreshing THEN Fault("Load", "")
       ELSE /\ p' = IF ok THEN p \cup ks ELSE p
            /\ Accept("Load", "")
            /\ UNCHANGED <<state, regVars, indexVars, configers, configerList,
                           destroyerList, goVars, refreshVars, closeVars, hist>>

\* gs.go:126-129
Property(key) ==
    /\ callerFree
    /\ IF ~callBeforeRefreshing THEN Fault("Property", "")
       ELSE /\ p' = p \cup {key}
            /\ Accept("Property", "")
            /\ UNCHANGED <<state, regVars, indexVars, configers, configerList,
                           destroyerList, goVars, refreshVars, closeVars, hist>>

\* gs.go:148: c.beans = append(c.beans, b), with the descriptor's own fields
\* (status Default, the exports it declares) and the history kept beside it.
appendBean(d) ==
    /\ beans' = Append(beans, d)
    /\ status' = Append(status, Default)
    /\ exports' = Append(exports, d.exports)
    /\ hist' = [hist EXCEPT !.evals = Append(@, 0), !.wired = Append(@, 0),
                            !.druns = Append(@, 0)]

\* gs.go:146-150
Register(d) ==
    /\ callerFree
    /\ IF ~callBeforeRefreshing THEN Fault("Register", "")
       ELSE /\ Len(beans) < MaxBeans
            /\ appendBean(d)
            /\ Accept("Register", "")
            /\ UNCHANGED <<state, p, indexVars, configers, configerList,
                           destroyerList, goVars, refreshVars, closeVars>>

\* gs.go:132-136: the guard, NewBean, then Register (which passes its guard).
Object(d) ==
    /\ callerFree
    /\ IF ~callBeforeRefreshing THEN Fault("Object", "")
       ELSE /\ Len(beans) < MaxBeans
            /\ appendBean(d)
            /\ Accept("Object", "")
            /\ UNCHANGED <<state, p, indexVars, configers, configerList,
                           destroyerList, goVars, refreshVars, closeVars>>

\* gs.go:139-143
Provide(d) ==
    /\ callerFree
    /\ IF ~callBeforeRefreshing THEN Fault("Provide", "")
       ELSE /\ Len(beans) < MaxBeans
            /\ appendBean(d)
            /\ Accept("Provide", "")
            /\ UNCHANGED <<state, p, indexVars, configers, configerList,
                           destroyerList, goVars, refreshVars, closeVars>>

\* What Config may be handed: a func() or func() error, something that is no
\* function, or a function with another result list.
FnKinds == {"ok", "notFunc", "badReturn"}

\* gs.go:153-168: the guard, the two checks of fn's type, then the append;
\* room is how many entries the caller registers at most.
ConfigWithin(room, fnKind, g) ==
    /\ callerFree
    /\ IF ~callBeforeRefreshing \/ fnKind # "ok" THEN Fault("Config", fnKind)
       ELSE /\ Len(configers) < room
            /\ configers' = Append(configers, g)
            /\ hist' = [hist EXCEPT !.ran = Append(@, 0)]
            /\ Accept("Config", fnKind)
            /\ UNCHANGED <<state, p, regVars, indexVars, configerList,
                           destroyerList, goVars, refreshVars, closeVars>>

Config(fnKind, g) == ConfigWithin(MaxConfigers, fnKind, g)

(* ------------------------------ Refresh ------------------------------- *)
\* The orders a Go map range, or one of the external sorts, may produce.
Perms(S) == {f \in [1..Cardinality(S) -> S] : \A i, j \in DOMAIN f : f[i] = f[j] => i = j}

\* A frame of the call stack: a range loop over beansById (k = "pass" for
\* resolveBeans, "find" for the finder, "wire" for wireBeans) with the keys it
\* has not reached yet, the loop over configerList (k = "conf"), or a
\* resolveBean call (k = "bean") that has marked b Resolving.
NoSel == [by |-> "", v |-> ""]
Frame(k, b, sel, todo, res, cur) ==
    [k |-> k, b |-> b, sel |-> sel, todo |-> todo, res |-> res, cur |-> cur]

LiveIds == {id \in Ids : beansById[id] # 0}
Top == stack[Len(stack)]
Below == SubSeq(stack, 1, Len(stack) - 1)

\* The guard of Refresh refusing only a container that is Refreshed.
alreadyRefreshed_OnlyRefreshed == state = Refreshed

\* gs.go:219: Refresh refuses to run a second time.
alreadyRefreshed == state # Unrefreshed

\* gs.go:217-223: the guard and the move to Refreshing.
RefreshCall ==
    /\ callerFree
    /\ IF alreadyRefreshed THEN Fault("Refresh", "")
       ELSE /\ state' = Refreshing
            /\ rpc' = "registerBeans"
            /\ Accept("Refresh", "")
            /\ UNCHANGED <<p, regVars, indexVars, configers, configerList,
                           destroyerList, goVars, stack, pending, closeVars, hist>>

\* registerBeans letting a later descriptor replace an earlier one of the
\* same identity.
registerBeansFrom_Overwrite(i, m) ==
    LET at(id) == {k \in i..Len(beans) : beans[k].id = id} IN
    [panic |-> FALSE,
     byId |-> [id \in Ids |-> IF at(id) = {} THEN m[id]
                              ELSE CHOOSE k \in at(id) : \A j \in at(id) : j <= k]]

\* gs.go:251-258: the loop over c.beans from i on; m is beansById so far.
RECURSIVE registerBeansFrom(_, _)
registerBeansFrom(i, m) ==
    IF i > Len(beans) THEN [panic |-> FALSE, byId |-> m]
    ELSE IF m[beans[i].id] # 0 THEN [panic |-> TRUE, byId |-> m]
         ELSE registerBeansFrom(i + 1, [m EXCEPT ![beans[i].id] = i])

registerBeans == registerBeansFrom(1, beansById)

\* gs.go:225
RegisterBeansStep ==
    /\ rpc = "registerBeans"
    /\ LET r == registerBeans IN
       /\ beansById' = r.byId
       /\ rpc' = IF r.panic THEN "aborted" ELSE "resolveConfigers"
    /\ UNCHANGED <<state, p, regVars, beansByName, beansByType, configers,
                   configerList, destroyerList, goVars, stack, pending,
                   closeVars, last, hist>>

\* Condition.Matches for a condition that needs no lookup.
matchesNow(cond) ==
    CASE cond.k = "none" -> TRUE
      [] cond.k = "prop" -> cond.arg \in p
      [] OTHER -> FALSE

\* resolveConfigers keeping every entry, whatever its condition.
survivors_Unfiltered == [i \in 1..Len(configers) |-> i]

\* gs.go:263-267: the configers that survive their condition, in order.
survivors == SelectSeq([i \in 1..Len(configers) |-> i],
                       LAMBDA i : matchesNow(configers[i].cond))

\* gs.go:261-270: the filter, then sort.Triple, which returns the survivors in
\* an order of its own; then resolveBeans begins its range over beansById.
ResolveConfigersStep ==
    /\ rpc = "resolveConfigers"
    /\ stack = <<>>
    /\ \E f \in Perms(Range(survivors)) : configerList' = f
    /\ rpc' = "resolveBeans"
    /\ stack' = <<Frame("pass", 0, NoSel, LiveIds, {}, 0)>>
    /\ UNCHANGED <<state, p, regVars, indexVars, configers, destroyerList,
                   goVars, pending, closeVars, last, hist>>

(* ---------------------------- resolveBean ----------------------------- *)
\* resolveBean listing the descriptor under its concrete type once more
\* instead of under its exports.
exportLoop_Relisting(b, ord, i, byT) ==
    [err |-> FALSE, byType |-> [byT EXCEPT ![beans[b].typ] = Append(@, b)]]

\* gs.go:310-317: the range over b.exports in the order ord, from its i-th
\* element on; byT is beansByType so far. Stops at the first interface the
\* type does not implement.
RECURSIVE exportLoop(_, _, _, _)
exportLoop(b, ord, i, byT) ==
    IF i > Len(ord) THEN [err |-> FALSE, byType |-> byT]
    ELSE IF Implements(beans[b].typ, ord[i])
         THEN exportLoop(b, ord, i + 1, [byT EXCEPT ![ord[i]] = Append(@, b)])
         ELSE [err |-> TRUE, byType |-> byT]

\* gs.go:303-307: b.exports after autoExport, and whether it failed.
autoExported(b) ==
    IF beans[b].typ \in DOMAIN StructDefs
    THEN autoExport(StructDefs, beans[b].typ, exports[b])
    ELSE [err |-> FALSE, exports |-> exports[b]]

\* gs.go:298-323: what resolveBean does to a descriptor whose condition
\* holds; ord is the order in which the range over b.exports yields them.
resolveTail(b, ord) ==
    LET byT1 == [beansByType EXCEPT ![beans[b].typ] = Append(@, b)]
        ae == autoExported(b)
        el == exportLoop(b, ord, 1, byT1)
    IN  IF ae.err
        THEN [err |-> TRUE, byType |-> byT1, ex |-> ae.exports,
              byName |-> beansByName, st |-> Resolving]
        ELSE IF el.err
             THEN [err |-> TRUE, byType |-> el.byType, ex |-> ae.exports,
                   byName |-> beansByName, st |-> Resolving]
             ELSE [err |-> FALSE, byType |-> el.byType, ex |-> ae.exports,
                   byName |-> [beansByName EXCEPT ![beans[b].name] = Append(@, b)],
                   st |-> Resolved]

\* The finder keeping a descriptor that came back Deleted.
returnTo_KeepDeleted(base, b, st) ==
    LET f == base[Len(base)] IN
    SubSeq(base, 1, Len(base) - 1) \o
      <<[f EXCEPT !.cur = 0, !.res = IF f.k = "find" THEN @ \cup {b} ELSE @]>>

\* gs.go:178-183 and 275-277: the loop that called resolveBean(b) goes on
\* after it returned nil; the finder keeps b unless it is Deleted.
returnTo(base, b, st) ==
    LET f == base[Len(base)] IN
    SubSeq(base, 1, Len(base) - 1) \o
      <<[f EXCEPT !.cur = 0,
                  !.res = IF f.k = "find" /\ st # Deleted THEN @ \cup {b} ELSE @]>>

\* An error of resolveBean unwinds every caller: the finder and resolveBeans
\* return it, a condition that met it gives up, and Refresh panics with it
\* (gs.go:228-229). A find made after Refresh has ended just returns it.
unwound == IF rpc \in {"aborted", "done"} THEN rpc ELSE "aborted"

\* resolveBean marking the descriptor Deleted without removing it.
deleted_Kept(b) == beansById

\* gs.go:293: delete(c.beansById, b.ID())
deleted(b) == [beansById EXCEPT ![beans[b].id] = 0]

\* gs.go:292-323: resolveBean(b) from the result of its condition on; base is
\* the stack of its callers and h the history so far.
finishBean(b, matched, base, h) ==
    IF ~matched
    THEN /\ beansById' = deleted(b)
         /\ status' = [status EXCEPT ![b] = Deleted]
         /\ stack' = returnTo(base, b, Deleted)
         /\ hist' = h
         /\ UNCHANGED <<beansByName, beansByType, exports, rpc>>
    ELSE \E ord \in Perms(autoExported(b).exports) :
           LET r == resolveTail(b, ord) IN
           /\ beansByType' = r.byType
           /\ beansByName' = r.byName
           /\ exports' = [exports EXCEPT ![b] = r.ex]
           /\ status' = [status EXCEPT ![b] = r.st]
           /\ stack' = IF r.err THEN <<>> ELSE returnTo(base, b, Resolved)
           /\ rpc' = IF r.err THEN unwound ELSE rpc
           /\ hist' = h
           /\ UNCHANGED beansById

\* The selector a condition looks up, and what its result means.
condSel(cond) ==
    IF cond.k = "beanType" THEN [by |-> "type", v |-> cond.arg]
    ELSE [by |-> "name", v |-> cond.arg]

condHolds(cond, res) == IF cond.k = "missingName" THEN res = {} ELSE res # {}

\* gs.go:193-195 and 204-213: the predicate the finder applies to a
\* descriptor, for a string selector and for a type selector.
selects(sel, b) ==
    IF sel.by = "name" THEN beans[b].name = sel.v
    ELSE IF sel.v \in Ifaces
         THEN Implements(beans[b].typ, sel.v) /\ sel.v \in exports[b]
         ELSE beans[b].typ = sel.v

\* The guard of resolveBean returning only for a Deleted descriptor.
mustResolve_UnlessDeleted(b) == status[b] # Deleted

\* resolveBean not marking the descriptor Resolving.
marked_NoMark(b) == status

\* gs.go:286: the guard of resolveBean.
mustResolve(b) == status[b] < Resolving

\* gs.go:289
marked(b) == [status EXCEPT ![b] = Resolving]

\* The finder not passing over a descriptor that is being resolved.
finderTakes_Resolving(f, b) == f.k = "pass" \/ selects(f.sel, b)

\* gs.go:176: the finder passes over a descriptor that is being resolved.
finderTakes(f, b) == f.k = "pass" \/ (status[b] # Resolving /\ selects(f.sel, b))

\* One turn of a range over beansById (gs.go:175-185, 274-278): the loop
\* yields a key that is still in the map and, unless the finder passes over
\* it, calls resolveBean, which returns at once for a descriptor at or past
\* Resolving and otherwise marks it.
Visit(id) ==
    /\ stack # <<>>
    /\ Top.k \in {"pass", "find"}
    /\ Top.cur = 0
    /\ id \in Top.todo \cap LiveIds
    /\ LET b == beansById[id]
           f == [Top EXCEPT !.todo = @ \ {id}]
       IN  IF ~finderTakes(Top, b)
           THEN /\ stack' = Below \o <<f>>
                /\ UNCHANGED status
           ELSE IF ~mustResolve(b)
                THEN /\ stack' = returnTo(Below \o <<f>>, b, status[b])
                     /\ UNCHANGED status
                ELSE /\ status' = marked(b)
                     /\ stack' = Below \o <<[f EXCEPT !.cur = b],
                                            Frame("bean", b, NoSel, {}, {}, 0)>>
    /\ UNCHANGED <<state, p, beans, exports, indexVars, configers, configerList,
                   destroyerList, goVars, rpc, pending, closeVars, last, hist>>

\* gs.go:292: the condition of a descriptor just marked Resolving is
\* evaluated; one that looks beans up calls find, whose guard passes.
EvalCond ==
    /\ stack # <<>>
    /\ Top.k = "bean"
    /\ Top.cur = 0
    /\ LET b == Top.b
           cond == beans[b].cond
           h == [hist EXCEPT !.evals[b] = @ + 1]
       IN  CASE cond.k = "none" -> finishBean(b, TRUE, Below, hist)
             [] cond.k = "prop" -> finishBean(b, matchesNow(cond), Below, h)
             [] OTHER ->
                  /\ stack' = Below \o <<[Top EXCEPT !.cur = 1],
                                         Frame("find", 0, condSel(cond), LiveIds, {}, 0)>>
                  /\ hist' = h
                  /\ UNCHANGED <<status, exports, indexVars, rpc>>
    /\ UNCHANGED <<state, p, beans, configers, configerList, destroyerList,
                   goVars, pending, closeVars, last>>

\* The end of a range over beansById: no key of the map is left to yield.
\* resolveBeans returns nil and Refresh goes on to runConfigers
\* (gs.go:228-239); the finder returns its result (gs.go:186), to the
\* condition that asked, which lets resolveBean go on, or to the caller of find.
LoopEnd ==
    /\ stack # <<>>
    /\ Top.k \in {"pass", "find"}
    /\ Top.cur = 0
    /\ Top.todo \cap LiveIds = {}
    /\ IF Top.k = "pass"
       THEN /\ rpc' = "runConfigers"
            /\ stack' = <<Frame("conf", 0, NoSel, {}, {}, 1)>>
            /\ UNCHANGED <<status, exports, indexVars, hist>>
       ELSE LET h == [hist EXCEPT !.found = Top.res] IN
            IF Below # <<>>
            THEN LET b == Below[Len(Below)].b IN
                 finishBean(b, condHolds(beans[b].cond, Top.res),
                               SubSeq(stack, 1, Len(stack) - 2), h)
            ELSE /\ stack' = <<>>
                 /\ hist' = h
                 /\ UNCHANGED <<status, exports, indexVars, rpc>>
    /\ UNCHANGED <<state, p, beans, configers, configerList, destroyerList,
                   goVars, pending, closeVars, last>>

(* -------------------------------- find -------------------------------- *)
Selectors == [by : {"name"}, v : Names] \cup [by : {"type"}, v : {"T1", "I"}]

\* gs.go:171-214, called by the application: before Refresh, or once Refresh
\* has ended, in Refreshed or aborted; one find at a time.
FindCall(sel) ==
    /\ callerFree
    /\ IF ~callAfterRefreshing THEN Fault("find", sel.v)
       ELSE /\ stack' = <<Frame("find", 0, sel, LiveIds, {}, 0)>>
            /\ Accept("find", sel.v)
            /\ UNCHANGED <<container, goVars, rpc, pending, closeVars, hist>>

(* ---------------------- runConfigers and wireBeans -------------------- *)
\* runConfigers and wireBeans going on after an error.
returnsError_Swallowed(ok) == FALSE

\* gs.go:373-375 and 382-384: the loop returns the error of the call it made.
returnsError(ok) == ~ok

\* gs.go:370-378: one turn of the loop over configerList; ok is whether the
\* configuration function returns nil. An error makes Refresh panic
\* (gs.go:240).
RunConfiger(ok) ==
    /\ stack # <<>>
    /\ Top.k = "conf"
    /\ Top.cur <= Len(configerList)
    /\ hist' = [hist EXCEPT !.ran[configerList[Top.cur]] = @ + 1,
                            !.failed = @ \/ ~ok]
    /\ IF ~returnsError(ok)
       THEN /\ stack' = <<[Top EXCEPT !.cur = @ + 1]>>
            /\ UNCHANGED rpc
       ELSE /\ stack' = <<>>
            /\ rpc' = "aborted"
    /\ UNCHANGED <<container, goVars, pending, closeVars, last>>

\* gs.go:377 and 242: runConfigers returns nil and wireBeans begins its range.
ConfigersDone ==
    /\ stack # <<>>
    /\ Top.k = "conf"
    /\ Top.cur > Len(configerList)
    /\ rpc' = "wireBeans"
    /\ stack' = <<Frame("wire", 0, NoSel, LiveIds, {}, 0)>>
    /\ UNCHANGED <<container, goVars, pending, closeVars, last, hist>>

\* wireBeans going past a descriptor without handing it to the injection
\* mechanism.
WireBean_Skipped(id, ok, d) ==
    /\ stack # <<>>
    /\ Top.k = "wire"
    /\ id \in Top.todo \cap LiveIds
    /\ stack' = <<[Top EXCEPT !.todo = @ \ {id}]>>
    /\ UNCHANGED <<container, goVars, rpc, pending, closeVars, last, hist>>

\* gs.go:381-385: one turn of the range of wireBeans. The injection
\* mechanism gets descriptor b; it fails (ok = FALSE), or succeeds and, when
\* the bean has a destroy function (d), collects its destroyer.
WireBean(id, ok, d) ==
    /\ stack # <<>>
    /\ Top.k = "wire"
    /\ id \in Top.todo \cap LiveIds
    /\ LET b == beansById[id] IN
       /\ hist' = [hist EXCEPT !.wired[b] = @ + 1, !.failed = @ \/ ~ok]
       /\ IF ~returnsError(ok)
          THEN /\ stack' = <<[Top EXCEPT !.todo = @ \ {id}]>>
               /\ pending' = IF d THEN Append(pending, b) ELSE pending
               /\ UNCHANGED rpc
          ELSE /\ stack' = <<>>
               /\ rpc' = "aborted"
               /\ UNCHANGED pending
    /\ UNCHANGED <<container, goVars, closeVars, last>>

\* gs.go:245-246: wireBeans returned nil; the sorted destroyers are installed
\* (sortDestroyers returns them in an order of its own) and the state moves.
RefreshDone ==
    /\ stack # <<>>
    /\ Top.k = "wire"
    /\ Top.todo \cap LiveIds = {}
    /\ \E f \in Perms(Range(pending)) : destroyerList' = f
    /\ state' = Refreshed
    /\ rpc' = "done"
    /\ stack' = <<>>
    /\ UNCHANGED <<p, regVars, indexVars, configers, configerList, goVars,
                   pending, closeVars, last, hist>>

(* ------------------------------- Close -------------------------------- *)
\* gs.go:391-394: the guard, then cancel.
CloseCall ==
    IF ~callAfterRefreshing THEN Fault("Close", "")
    ELSE /\ cpc = "idle"
         /\ closes < MaxCloses
         /\ ctxDone' = TRUE
         /\ cpc' = "wait"
         /\ closes' = closes + 1
         /\ hist' = [hist EXCEPT !.closeRun = <<>>, !.firstErr = 0, !.waited = wg > 0]
         /\ Accept("Close", "")
         /\ UNCHANGED <<container, wg, tasks, refreshVars, closeList, closeIdx>>

\* gs.go:395-406: wg.Wait returns once the counter is zero; runDestroyers
\* takes the front of the destroyer list.
CloseWait ==
    /\ cpc = "wait"
    /\ wg = 0
    /\ cpc' = "destroy"
    /\ closeList' = destroyerList
    /\ closeIdx' = 1
    /\ UNCHANGED <<container, goVars, refreshVars, closes, last, hist>>

\* runDestroyers leaving its loop at the first error.
nextDestroyer_StopOnError(ok) == IF ok THEN closeIdx + 1 ELSE Len(closeList) + 1

\* gs.go:406-411: the element the loop goes to after d.run returned; an
\* error is logged and the loop goes on.
nextDestroyer(ok) == closeIdx + 1

\* gs.go:407-410: one destroyer runs; ok is whether it returns nil.
RunDestroyer(ok) ==
    /\ cpc = "destroy"
    /\ closeIdx <= Len(closeList)
    /\ hist' = [hist EXCEPT !.druns[closeList[closeIdx]] = @ + 1,
                            !.closeRun = Append(@, closeList[closeIdx]),
                            !.firstErr = IF @ = 0 /\ ~ok THEN closeIdx ELSE @]
    /\ closeIdx' = nextDestroyer(ok)
    /\ UNCHANGED <<container, goVars, refreshVars, cpc, closeList, closes, last>>

\* gs.go:411-403: the loop is over and Close returns.
CloseReturn ==
    /\ cpc = "destroy"
    /\ closeIdx > Len(closeList)
    /\ cpc' = "idle"
    /\ UNCHANGED <<container, goVars, refreshVars, closeList, closeIdx, closes,
                   last, hist>>

(* --------------------------------- Go --------------------------------- *)
\* gs.go:416-418: wg.Add(1) and the goroutine starts.
Go ==
    /\ tasks.spawned < MaxTasks
    /\ wg' = wg + 1
    /\ tasks' = [tasks EXCEPT !.spawned = @ + 1, !.running = @ + 1]
    /\ UNCHANGED <<container, ctxDone, refreshVars, closeVars, last, hist>>

\* wg.Done not deferred: a panic of fn skips it.
wgAfterExit_NoDefer(panicked) == IF panicked THEN wg ELSE wg - 1

\* gs.go:419-427: the counter after the goroutine's deferred calls ran: the
\* recover of a panic first, then wg.Done, whether fn returned or panicked.
wgAfterExit(panicked) == wg - 1

\* gs.go:427: fn returns.
TaskReturn ==
    /\ tasks.running > 0
    /\ wg' = wgAfterExit(FALSE)
    /\ tasks' = [tasks EXCEPT !.running = @ - 1]
    /\ UNCHANGED <<container, ctxDone, refreshVars, closeVars, last, hist>>

\* gs.go:421-427: fn panics; the panic is recovered and logged.
TaskPanic ==
    /\ tasks.running > 0
    /\ wg' = wgAfterExit(TRUE)
    /\ tasks' = [tasks EXCEPT !.running = @ - 1, !.recovered = @ + 1]
    /\ UNCHANGED <<container, ctxDone, refreshVars, closeVars, last, hist>>

(* --------------------------- specifications --------------------------- *)
Configers == [cond : {NoCond, OnProperty("k")}]

\* The registration surface and Refresh in the hands of one caller:
\* descriptors without a condition or with a property condition.
PlainBeans == {Bean(id, "a", "T2", c, {}) : id \in NextIds, c \in {NoCond, OnProperty("k")}}

RefreshSteps ==
    \/ RegisterBeansStep
    \/ ResolveConfigersStep
    \/ \E id \in Ids : Visit(id)
    \/ EvalCond
    \/ LoopEnd
    \/ ConfigersDone
    \/ RefreshDone

CloseSteps ==
    \/ CloseCall
    \/ CloseWait
    \/ \E ok \in BOOLEAN : RunDestroyer(ok)
    \/ CloseReturn

Next ==
    \/ \E ok \in BOOLEAN : Load(ok, Keys)
    \/ \E k \in Keys : Property(k)
    \/ \E d \in PlainBeans : Register(d)
    \/ \E id \in NextIds : Object(Bean(id, "a", "T2", NoCond, {}))
    \/ \E id \in NextIds : Provide(Bean(id, "a", "T2", NoCond, {}))
    \/ \E fk \in FnKinds, g \in Configers : Config(fk, g)
    \/ RefreshCall
    \/ RefreshSteps
    \/ \E ok \in BOOLEAN : RunConfiger(ok)
    \/ \E id \in Ids, ok, d \in BOOLEAN : WireBean(id, ok, d)

Spec == Init /\ [][Next]_vars

\* Close beside the goroutines of Go: descriptors without a condition, every
\* one of which may bring a destroyer.
NextClose ==
    \/ \E id \in NextIds : state = Unrefreshed /\ Register(Bean(id, "a", "T2", NoCond, {}))
    \/ RefreshCall
    \/ RefreshSteps
    \/ \E id \in Ids, ok, d \in BOOLEAN : WireBean(id, ok, d)
    \/ CloseSteps
    \/ Go
    \/ TaskReturn
    \/ TaskPanic

SpecClose == Init /\ [][NextClose]_vars

\* Resolution: descriptors whose conditions look each other up by name, and
\* the find query. No property is ever set, so a property condition is one
\* that fails.
LookupConds == {NoCond, OnProperty("k")}
                 \cup {OnBeanName(n) : n \in Names} \cup {OnMissingName(n) : n \in Names}
LookupBeans == {Bean(id, n, "T2", c, {}) : id \in NextIds, n \in Names, c \in LookupConds}

NextResolve ==
    \/ \E d \in LookupBeans : state = Unrefreshed /\ Register(d)
    \/ state = Unrefreshed /\ RefreshCall
    \/ RefreshSteps
    \/ \E id \in Ids : WireBean(id, TRUE, FALSE)
    \/ \E n \in Names : FindCall([by |-> "name", v |-> n])

SpecResolve == Init /\ [][NextResolve]_vars

\* The Go scheduler runs every goroutine that can run: Close goes on as soon
\* as it can, and a goroutine of Go leaves once the context is cancelled.
FairClose ==
    /\ SpecClose
    /\ WF_vars(CloseWait)
    /\ WF_vars(\E ok \in BOOLEAN : RunDestroyer(ok))
    /\ WF_vars(CloseReturn)
    /\ WF_vars(ctxDone /\ (TaskReturn \/ TaskPanic))

\* The goroutine inside resolveBeans or find keeps running.
FairResolve ==
    /\ SpecResolve
    /\ WF_vars(\E id \in Ids : Visit(id))
    /\ WF_vars(EvalCond)
    /\ WF_vars(LoopEnd)

\* Resolution with lookups by type: descriptors of a struct type that
\* auto-exports I (T1), of a type that implements nothing (T2) and of a struct
\* type whose export tag is misplaced (T3), with or without a declared export
\* of I, whose conditions look beans up by concrete type or by interface.
TypeConds == {NoCond, OnBeanType("I"), OnBeanType("T1")}
ExportBeans == {Bean(Len(beans) + 1, "a", t, c, ex) :
                  t \in {"T1", "T2", "T3"}, c \in TypeConds, ex \in {{}, {"I"}}}

NextExport ==
    \/ \E d \in ExportBeans : state = Unrefreshed /\ Register(d)
    \/ state = Unrefreshed /\ RefreshCall
    \/ RefreshSteps
    \/ \E id \in Ids : WireBean(id, TRUE, FALSE)
    \/ \E sel \in Selectors : FindCall(sel)

SpecExport == Init /\ [][NextExport]_vars

\* The configuration entries of a Refresh: up to MaxEntries of them, with and
\* without a condition on a property that may or may not be set, each of
\* which may fail, over descriptors whose wiring may fail.
NextConfig ==
    \/ \E k \in Keys : state = Unrefreshed /\ Property(k)
    \/ \E g \in Configers : state = Unrefreshed /\ ConfigWithin(MaxEntries, "ok", g)
    \/ \E c \in {NoCond, OnProperty("k")} :
          state = Unrefreshed /\ Register(Bean(Len(beans) + 1, "a", "T2", c, {}))
    \/ state = Unrefreshed /\ RefreshCall
    \/ RefreshSteps
    \/ \E ok \in BOOLEAN : RunConfiger(ok)
    \/ \E id \in Ids, ok \in BOOLEAN : WireBean(id, ok, FALSE)

SpecConfig == Init /\ [][NextConfig]_vars

\* Auto-export: descriptors without a condition of every struct type of the
\* universe, and of a type that is no struct, some declaring an export.
StructBeans == {Bean(Len(beans) + 1, "a", t, NoCond, ex) :
                  t \in ConcreteTypes, ex \in {{}, {"J"}}}

NextAutoExport ==
    \/ \E d \in StructBeans : state = Unrefreshed /\ Register(d)
    \/ state = Unrefreshed /\ RefreshCall
    \/ RefreshSteps
    \/ \E id \in Ids : WireBean(id, TRUE, FALSE)

SpecAutoExport == Init /\ [][NextAutoExport]_vars

(* ------------------------------- claims ------------------------------- *)
BeanIdx == 1..Len(beans)
MutOps == {"Load", "Property", "Object", "Provide", "Register", "Config"}
Called(op) == last' # last /\ last'.op = op

\* C1 as stated: a structural mutation (Load, Property, Object, Provide,
\* Register, Config) called while Refreshing or Refreshed faults and leaves
\* the bean list, the configuration list and the property store unchanged;
\* called while Unrefreshed it is accepted.
C1_AsStated ==
    [][\A op \in MutOps : Called(op) =>
          IF state = Unrefreshed THEN ~last'.fault
          ELSE last'.fault /\ UNCHANGED <<beans, configers, p>>]_vars

\* C1 amended: called while Refreshing or Refreshed every structural mutation
\* faults; called while Unrefreshed, Load, Property, Object, Provide and
\* Register are accepted and Config is accepted exactly when fn is a function
\* returning nothing or only an error, and faults otherwise; a call that
\* faults leaves the bean list, the configuration list and the property
\* store unchanged.
C1_MutationGuard ==
    [][\A op \in MutOps : Called(op) =>
          /\ state # Unrefreshed => last'.fault
          /\ state = Unrefreshed => (last'.fault <=> (op = "Config" /\ last'.arg # "ok"))
          /\ last'.fault => UNCHANGED <<beans, configers, p>>]_vars

\* C1 witness: Register has faulted on a Refreshed container that holds beans,
\* configers and a property.
C1_Witness ==
    /\ last.op = "Register" /\ last.fault
    /\ state = Refreshed
    /\ beans # <<>> /\ configers # <<>> /\ p # {}

\* C2: the state only moves Unrefreshed -> Refreshing -> Refreshed, one step
\* at a time and never back (so it leaves Unrefreshed at most once), and a
\* Refresh called while Refreshing or Refreshed, also after a Refresh that
\* aborted, faults and changes neither the state nor anything a phase of
\* Refresh writes.
C2_RefreshOnce ==
    [][/\ state' \in {state, state + 1}
       /\ (Called("Refresh") /\ state # Unrefreshed) =>
             last'.fault /\ UNCHANGED <<container, refreshVars, hist>>]_vars

\* C2 witness: Refresh was called again, and faulted, after a Refresh that
\* aborted in registerBeans and left the container Refreshing.
C2_Witness ==
    /\ last.op = "Refresh" /\ last.fault
    /\ rpc = "aborted" /\ state = Refreshing
    /\ \E i, j \in BeanIdx : i < j /\ beans[i].id = beans[j].id

\* C3 as stated: Close is accepted only when the state is Refreshed; called
\* while Unrefreshed or Refreshing it faults, does not cancel the context and
\* runs no destroyer.
C3_CloseOnlyRefreshed ==
    [][(Called("Close") /\ state # Refreshed) =>
          last'.fault /\ UNCHANGED <<ctxDone, cpc, hist>>]_vars

\* A step in which a destroyer runs.
DestroyerRuns == hist'.druns # hist.druns

\* C4 as stated: under every interleaving of Close with the goroutines of Go
\* and with concurrent Go calls, whenever a destroyer runs the context is
\* cancelled and no goroutine started by Go is still running.
C4_DestroyAfterTasks ==
    [][DestroyerRuns => ctxDone /\ tasks.running = 0]_vars

\* C5 as stated: over any sequence of lifecycle operations, Close called more
\* than once included, each destroyer is executed at most once.
C5_DestroyOnce == \A b \in BeanIdx : hist.druns[b] <= 1

\* C6: within one Close the destroyers run one after the other in the order
\* of the list runDestroyers took, and every entry runs whichever earlier
\* entry returned an error: while the loop stands at an element exactly the
\* elements before it have run, and when Close has returned the whole list
\* has, in order.
C6_DestroyersAllRun ==
    /\ cpc = "destroy" =>
          /\ closeIdx \in 1..(Len(closeList) + 1)
          /\ hist.closeRun = SubSeq(closeList, 1, closeIdx - 1)
    /\ (cpc = "idle" /\ closes > 0) => hist.closeRun = closeList
    /\ hist.firstErr # 0 => cpc \in {"destroy", "idle"}

\* C6 witness: a Close of a Refreshed container has returned after running
\* two destroyers, the first of which returned an error.
C6_Witness ==
    /\ cpc = "idle" /\ closes = 1 /\ state = Refreshed
    /\ Len(destroyerList) = 2 /\ closeList = destroyerList
    /\ hist.firstErr = 1
    /\ hist.closeRun = closeList

\* C7: a goroutine of Go that panics still releases its slot of the wait
\* counter (the counter is always the number of goroutines still running),
\* and under fair scheduling a Close of a Refreshed container that waits for
\* them returns, once every goroutine has returned or panicked.
C7_CloseReturns ==
    /\ [](wg = tasks.running)
    /\ ((cpc = "wait" /\ state = Refreshed) ~> (cpc = "idle"))

\* C7 witness: Close was called on a Refreshed container while a goroutine
\* ran, the goroutine panicked, and Close has run a destroyer and returned.
C7_Witness ==
    /\ hist.waited /\ tasks.recovered = 1 /\ tasks.running = 0
    /\ state = Refreshed /\ closes = 1 /\ cpc = "idle"
    /\ hist.closeRun # <<>>

\* The descriptors a finder on the stack holds as its result so far.
Held == UNION {stack[i].res : i \in 1..Len(stack)}

\* C8: a descriptor marked Deleted is in none of the three indices, is in no
\* result of find and has never been handed to the injection mechanism by
\* wireBeans.
C8_DeletedInvisible ==
    \A b \in BeanIdx : status[b] = Deleted =>
        /\ b \notin Range(beansById)
        /\ \A n \in Names : b \notin Range(beansByName[n])
        /\ \A t \in TypeKeys : b \notin Range(beansByType[t])
        /\ b \notin hist.found \cup Held
        /\ hist.wired[b] = 0

\* C8 witness: the container is Refreshed, another descriptor has been wired,
\* and a find by the name of a Deleted descriptor has returned.
C8_Witness ==
    /\ state = Refreshed /\ stack = <<>>
    /\ \E b, c \in BeanIdx :
         /\ status[b] = Deleted
         /\ beans[b].cond.k = "missingName"
         /\ hist.wired[c] = 1
         /\ last = [op |-> "find", arg |-> beans[b].name, fault |-> FALSE]

\* The moves of a status: Default -> Resolving -> Resolved or Deleted.
StatusMoves == {<<Default, Resolving>>, <<Resolving, Resolved>>, <<Resolving, Deleted>>}

\* A turn of a range over beansById that calls resolveBean on a descriptor
\* at or past Resolving.
RepeatedResolve(id) ==
    /\ stack # <<>> /\ stack' # <<>>
    /\ Top.k \in {"pass", "find"} /\ Top.cur = 0
    /\ id \in Top.todo \cap LiveIds
    /\ Len(stack') >= Len(stack)
    /\ stack'[Len(stack)].todo = Top.todo \ {id}
    /\ finderTakes(Top, beansById[id])
    /\ status[beansById[id]] >= Resolving

\* C9: a status only moves Default -> Resolving -> {Resolved, Deleted}, and
\* resolveBean called on a descriptor that is already Resolving, Resolved or
\* Deleted returns nil and changes no status and no index.
C9_StatusMonotone ==
    [][/\ \A b \in BeanIdx : status'[b] = status[b] \/ <<status[b], status'[b]>> \in StatusMoves
       /\ \A id \in Ids : RepeatedResolve(id) =>
             /\ UNCHANGED <<status, exports, indexVars, rpc>>
             /\ Len(stack') = Len(stack)]_vars

\* C9 witness: resolveBeans is about to reach a descriptor that a lookup of
\* an earlier condition has already resolved, while another is Deleted.
C9_Witness ==
    /\ rpc = "resolveBeans" /\ Len(stack) = 1 /\ Top.cur = 0
    /\ \E id \in Top.todo \cap LiveIds : status[beansById[id]] = Resolved
    /\ \E b \in BeanIdx : status[b] = Deleted

\* C10: whatever conditions look up which descriptors, themselves and each
\* other in cycles included, and whatever the order of the map ranges, no
\* condition is evaluated more than once and the resolution pass ends.
C10_ResolutionTerminates ==
    /\ [](\A b \in BeanIdx : hist.evals[b] <= 1)
    /\ (rpc = "resolveBeans" ~> rpc # "resolveBeans")

\* C10 witness: the pass has ended over two descriptors whose conditions look
\* each other up, one of which also looks itself up.
C10_Witness ==
    /\ rpc = "runConfigers"
    /\ \E b, c \in BeanIdx :
         /\ b # c
         /\ beans[b].cond = OnBeanName(beans[c].name)
         /\ beans[c].cond = OnBeanName(beans[b].name)
         /\ hist.evals[b] = 1 /\ hist.evals[c] = 1

\* The exports a descriptor ends with: those it declares and those its struct
\* definition surfaces.
FullExports(b) == beans[b].exports \cup autoExported(b).exports

\* Descriptor c is one the selector sel is about: it carries the name, is of
\* the concrete type, or implements and exports the interface.
Answers(sel, c) ==
    IF sel.by = "name" THEN beans[c].name = sel.v
    ELSE IF sel.v \in Ifaces
         THEN Implements(beans[c].typ, sel.v) /\ sel.v \in FullExports(c)
         ELSE beans[c].typ = sel.v

\* The condition of b looks descriptor c up.
LooksUp(b, c) ==
    /\ beans[b].cond.k \in {"beanName", "beanType", "missingName"}
    /\ Answers(condSel(beans[b].cond), c)

\* The descriptors reached from those of S by at most k lookups.
RECURSIVE LookedUpFrom(_, _)
LookedUpFrom(S, k) ==
    IF k = 0 THEN S
    ELSE LookedUpFrom(S \cup {c \in BeanIdx : \E b \in S : LooksUp(b, c)}, k - 1)

\* No descriptor's condition looks up, through any chain, the descriptor itself.
AcyclicLookups ==
    \A b \in BeanIdx :
        b \notin LookedUpFrom({c \in BeanIdx : LooksUp(b, c)}, Len(beans))

\* The status an acyclic registry gives a descriptor whatever the order: its
\* condition judged on the descriptors it looks up that end Resolved.
RECURSIVE FinalStatus(_)
FinalStatus(b) ==
    LET cond == beans[b].cond
        res == {c \in BeanIdx : LooksUp(b, c) /\ FinalStatus(c) = Resolved}
    IN  IF cond.k \in {"none", "prop"}
        THEN IF matchesNow(cond) THEN Resolved ELSE Deleted
        ELSE IF condHolds(cond, res) THEN Resolved ELSE Deleted

\* The resolution pass of Refresh has ended without an error.
PassEnded == rpc \in {"runConfigers", "wireBeans", "done"}

\* C11 as stated: once the resolution pass has ended, a descriptor Y whose
\* condition requires a descriptor X that has no condition is Resolved and
\* listed under its type, whichever of the two the range over the identity
\* map reached first; and when the lookups among the conditions are acyclic,
\* every descriptor has the one status the registry determines, whatever the
\* order of resolution.
C11_OrderIndependent ==
    PassEnded =>
        /\ \A x, y \in BeanIdx :
             (/\ x # y
              /\ beans[x].cond = NoCond
              /\ beans[y].cond.k \in {"beanName", "beanType"}
              /\ LooksUp(y, x))
             => status[y] = Resolved /\ y \in Range(beansByType[beans[y].typ])
        /\ AcyclicLookups => \A b \in BeanIdx : status[b] = FinalStatus(b)

\* The positions of configuration entry g in the execution list.
Listed(g) == {i \in DOMAIN configerList : configerList[i] = g}

\* The execution list has been built by resolveConfigers.
ListBuilt == rpc \in {"resolveBeans", "runConfigers", "wireBeans", "done"}

\* C12: a configuration entry whose condition is false is never executed and
\* is not in the execution list; every surviving entry is in the built list
\* exactly once; while the entries run, exactly those before the loop's
\* position have run, once each, and when the refresh goes on to wiring every
\* surviving entry has run once; an entry runs only when every descriptor is
\* Resolved or Deleted and none has been handed to the injection mechanism.
C12_ConfigersOnce ==
    /\ [](\A g \in DOMAIN configers :
            /\ ~matchesNow(configers[g].cond) => hist.ran[g] = 0 /\ Listed(g) = {}
            /\ hist.ran[g] <= 1
            /\ (ListBuilt /\ matchesNow(configers[g].cond)) => Cardinality(Listed(g)) = 1
            /\ (rpc \in {"wireBeans", "done"} /\ matchesNow(configers[g].cond))
                  => hist.ran[g] = 1)
    /\ []((rpc = "runConfigers" /\ stack # <<>>) =>
            \A i \in DOMAIN configerList :
                hist.ran[configerList[i]] = IF i < Top.cur THEN 1 ELSE 0)
    /\ [][(\E g \in DOMAIN hist.ran : hist'.ran[g] # hist.ran[g]) =>
            \A b \in BeanIdx : status[b] \in {Resolved, Deleted} /\ hist.wired[b] = 0]_vars

\* C12 witness: a Refresh has ended in which two entries ran in a list order
\* that is not their order of registration, a third was filtered out, and a
\* descriptor was then wired while another was Deleted.
C12_Witness ==
    /\ state = Refreshed
    /\ Len(configers) = 3 /\ configerList = <<3, 1>>
    /\ hist.ran = <<1, 0, 1>>
    /\ \E b, c \in BeanIdx : hist.wired[b] = 1 /\ status[c] = Deleted

\* C13: once a configuration entry or the wiring of a descriptor has failed,
\* the Refresh is aborted and stays so: the destroyer list is not installed,
\* the state is Refreshing and never becomes Refreshed, and from then on no
\* configuration entry is executed and no descriptor is wired.
C13_AbortOnFailure ==
    /\ [](hist.failed =>
            rpc = "aborted" /\ state = Refreshing /\ destroyerList = <<>>)
    /\ [][hist.failed =>
            /\ hist'.failed
            /\ hist'.ran = hist.ran /\ hist'.wired = hist.wired]_vars

\* C13 witness: the first of two listed configuration entries has failed, the
\* second has not run and the registered descriptors are resolved but unwired.
C13_Witness ==
    /\ hist.failed /\ rpc = "aborted"
    /\ Len(configerList) = 2
    /\ hist.ran[configerList[1]] = 1 /\ hist.ran[configerList[2]] = 0
    /\ Len(beans) = 2
    /\ \A b \in BeanIdx : status[b] = Resolved /\ hist.wired[b] = 0

\* Two registered descriptors have the same identity.
DuplicateIds == \E i, j \in BeanIdx : i < j /\ beans[i].id = beans[j].id

\* C14: a Register of a descriptor whose identity is already registered is
\* accepted while Unrefreshed and appends it; with two descriptors of one
\* identity registerBeans faults, so that the Refresh is aborted in the state
\* Refreshing with no bean condition evaluated, no descriptor touched, no
\* execution list built and no configuration entry run; with distinct
\* identities registerBeans does not fault and leaves the identity index
\* with exactly one entry per registered descriptor.
C14_DuplicateIds ==
    /\ [][(Called("Register") /\ state = Unrefreshed) =>
            ~last'.fault /\ Len(beans') = Len(beans) + 1]_vars
    /\ [][rpc = "registerBeans" =>
            IF DuplicateIds THEN rpc' = "aborted"
            ELSE /\ rpc' = "resolveConfigers"
                 /\ \A b \in BeanIdx : beansById'[beans[b].id] = b
                 /\ Cardinality({id \in Ids : beansById'[id] # 0}) = Len(beans)]_vars
    /\ []((DuplicateIds /\ state # Unrefreshed /\ rpc # "registerBeans") =>
            /\ rpc = "aborted" /\ state = Refreshing
            /\ configerList = <<>>
            /\ \A g \in DOMAIN configers : hist.ran[g] = 0
            /\ \A b \in BeanIdx :
                 status[b] = Default /\ hist.evals[b] = 0 /\ hist.wired[b] = 0)

\* C14 witness: a Refresh over two descriptors of one identity, the first
\* with a condition, and a configuration entry with a condition, was accepted
\* and has been aborted.
C14_Witness ==
    /\ DuplicateIds /\ Len(beans) = 2
    /\ last = [op |-> "Refresh", arg |-> "", fault |-> FALSE]
    /\ rpc = "aborted"
    /\ beans[1].cond = OnProperty("k") /\ p = {"k"}
    /\ configers = <<[cond |-> OnProperty("k")]>>

\* The finder on top of the stack has ended its range and is about to return.
FindDone ==
    /\ stack # <<>>
    /\ Top.k = "find" /\ Top.cur = 0
    /\ Top.todo \cap LiveIds = {}

Embeds(t) ==
    {f.ftype : f \in {g \in Range(StructDefs[t]) :
                        /\ g.anonymous /\ g.kind = "struct"
                        /\ ~g.export /\ ~g.inject /\ ~g.autowire}}

\* The structs reached from those of S through at most k such fields.
RECURSIVE EmbeddedIn(_, _)
EmbeddedIn(S, k) ==
    IF k = 0 THEN S
    ELSE EmbeddedIn(S \cup UNION {Embeds(t) : t \in S}, k - 1)

\* The export-tagged fields on the chains that start at struct t.
Tagged(t) ==
    UNION {{f \in Range(StructDefs[u]) : f.export} :
             u \in EmbeddedIn({t}, Cardinality(DOMAIN StructDefs))}

\* The interfaces struct t surfaces, and whether its tags are in error.
Surfaced(t) == {f.ftype : f \in Tagged(t)}
Mistagged(t) == \E f \in Tagged(t) : f.kind # "iface" \/ f.inject \/ f.autowire

\* resolveBean has run on descriptor b and returned.
Returned(b) ==
    /\ status[b] # Default
    /\ \A i \in DOMAIN stack : ~(stack[i].k = "bean" /\ stack[i].b = b)

\* C16: autoExport on a struct fails exactly when an export tag on a chain
\* of untagged embedded structs sits on a field that is no interface or that
\* is also tagged inject or autowire, and otherwise adds exactly the
\* export-tagged interface fields on those chains; so a descriptor of a
\* struct type that is Resolved exports what it declared and what its struct
\* surfaces, nothing below a tagged embedded field or a named field, and a
\* descriptor of a mistagged struct fails its resolution and the Refresh.
C16_AutoExport ==
    /\ \A t \in DOMAIN StructDefs :
         LET r == autoExport(StructDefs, t, {}) IN
         /\ r.err = Mistagged(t)
         /\ ~r.err => r.exports = Surfaced(t)
    /\ \A b \in BeanIdx : beans[b].typ \in DOMAIN StructDefs =>
         LET t == beans[b].typ IN
         /\ status[b] = Resolved =>
               ~Mistagged(t) /\ exports[b] = beans[b].exports \cup Surfaced(t)
         /\ (Mistagged(t) /\ Returned(b)) =>
               status[b] = Resolving /\ rpc = "aborted" /\ state = Refreshing

\* C16 witness: a container is Refreshed that holds a descriptor whose struct
\* surfaces I from the third level and J from the second and is listed under
\* both, and a descriptor whose tagged and named fields hide every interface.
C16_Witness ==
    /\ state = Refreshed
    /\ \E b, c \in BeanIdx :
         /\ beans[b].typ = "T4" /\ beans[b].exports = {}
         /\ exports[b] = {"I", "J"}
         /\ b \in Range(beansByType["I"]) \cap Range(beansByType["J"])
         /\ beans[c].typ = "T5" /\ status[c] = Resolved /\ exports[c] = {}

\* The resolution of descriptor b, once its condition holds, ends in an
\* error: its struct is mistagged or it exports an interface its type does
\* not implement.
ResolutionFails(b) ==
    \/ beans[b].typ \in DOMAIN StructDefs /\ Mistagged(beans[b].typ)
    \/ \E i \in FullExports(b) : ~Implements(beans[b].typ, i)

\* The resolution pass has ended, with or without an error, and no call of
\* resolveBean is under way.
PassOver == rpc \in {"runConfigers", "wireBeans", "done", "aborted"} /\ stack = <<>>

\* C17 as stated: whenever the resolution pass has ended, with an error or
\* without, no descriptor is left at Resolving, and a descriptor whose
\* resolution failed is listed under no type.
C17_TerminalStatus ==
    PassOver =>
        \A b \in BeanIdx :
            /\ status[b] # Resolving
            /\ (ResolutionFails(b) /\ status[b] \notin {Default, Deleted}) =>
                  \A t \in TypeKeys : b \notin Range(beansByType[t])

\* The condition of descriptor a makes a lookup whose predicate takes b.
Seeks(a, b) ==
    /\ beans[a].cond.k \in {"beanName", "beanType", "missingName"}
    /\ selects(condSel(beans[a].cond), b)

\* The conditions of descriptors a and b look each other up.
Mutual(a, b) == a # b /\ Seeks(a, b) /\ Seeks(b, a)

\* The lookup of the condition of the descriptor the pass reached is about to
\* return: the pass, resolveBean on that descriptor, and its finder.
FirstLookupDone == rpc = "resolveBeans" /\ Len(stack) = 3 /\ FindDone

\* C18 as stated: of two descriptors whose conditions look each other up,
\* the lookup made by the condition of the one the pass reaches first does
\* not return the other.
C18_FirstSeesNone ==
    FirstLookupDone =>
        \A b \in BeanIdx : Mutual(stack[2].b, b) => b \notin Top.res

\* C18 amended: the lookup of the descriptor the pass reaches first resolves
\* the other on demand, and it is the lookup of that other which does not
\* return the first, still Resolving: no finder holds a descriptor whose
\* resolveBean is under way beneath it. The lookup of the first returns the
\* other exactly when the other, its condition evaluated once and without
\* the first, came out Resolved and not Deleted.
C18_SecondSeesNone ==
    /\ \A i, j \in DOMAIN stack :
         (j < i /\ stack[i].k = "find" /\ stack[j].k = "bean")
         => stack[j].b \notin stack[i].res
    /\ FirstLookupDone =>
         \A b \in BeanIdx : Mutual(stack[2].b, b) =>
             /\ status[b] \in {Resolved, Deleted}
             /\ hist.evals[b] = 1
             /\ b \in Top.res <=> status[b] = Resolved

\* C18 witness: the pass reached a descriptor that requires another, which
\* requires the first to be missing; the lookup of the first has resolved the
\* other and is about to return it.
C18_Witness ==
    /\ FirstLookupDone
    /\ \E b \in BeanIdx :
         /\ Mutual(stack[2].b, b)
         /\ beans[stack[2].b].cond = OnBeanName(beans[b].name)
         /\ beans[b].cond = OnMissingName(beans[stack[2].b].name)
         /\ beans[b].name # beans[stack[2].b].name
         /\ Top.res = {b} /\ status[b] = Resolved

\* The descriptors listed in the by-name or the by-type index.
Indexed ==
    UNION {Range(beansByName[n]) : n \in Names}
      \cup UNION {Range(beansByType[t]) : t \in TypeKeys}

\* No element occurs twice in the list.
NoRepeat(l) == \A i, j \in DOMAIN l : l[i] = l[j] => i = j

\* C19: every descriptor listed under a name or a type is a registered one,
\* is held by the identity index under its identity and is Resolving or
\* Resolved; a Deleted descriptor is not in the identity index; and no list
\* of the by-name or the by-type index holds a descriptor twice.
C19_IndexConsistent ==
    /\ Indexed \subseteq BeanIdx
    /\ \A b \in Indexed :
         beansById[beans[b].id] = b /\ status[b] \in {Resolving, Resolved}
    /\ \A b \in BeanIdx : status[b] = Deleted => b \notin Range(beansById)
    /\ \A n \in Names : NoRepeat(beansByName[n])
    /\ \A t \in TypeKeys : NoRepeat(beansByType[t])

\* C19 witness: a container is Refreshed in which one descriptor is listed
\* once under its name, its concrete type and the interface it exports, and
\* the other is Deleted.
C19_Witness ==
    /\ state = Refreshed
    /\ \E b, c \in BeanIdx :
         /\ status[c] = Deleted
         /\ status[b] = Resolved
         /\ beansByName[beans[b].name] = <<b>>
         /\ beansByType[beans[b].typ] = <<b>>
         /\ beansByType["I"] = <<b>>

\* C20: in a Refreshed container every descriptor of the identity index is
\* Resolved and has been handed to the injection mechanism, once, every
\* surviving configuration entry has run, and the destroyer list holds the
\* destroyers collected while wiring; before the container is Refreshed the
\* destroyer list is empty, and it is written in no step but the one that
\* takes the state from Refreshing to Refreshed.
C20_RefreshedState ==
    /\ [](state = Refreshed =>
            /\ \A id \in LiveIds :
                 status[beansById[id]] = Resolved /\ hist.wired[beansById[id]] = 1
            /\ \A g \in DOMAIN configers :
                 matchesNow(configers[g].cond) => hist.ran[g] = 1
            /\ destroyerList \in Perms(Range(pending)))
    /\ [](state # Refreshed => destroyerList = <<>>)
    /\ [][destroyerList' # destroyerList =>
            state = Refreshing /\ state' = Refreshed]_vars

\* C20 witness: a container is Refreshed with a destroyer installed for its
\* one wired descriptor, the other descriptor Deleted, and its configuration
\* entry run.
C20_Witness ==
    /\ state = Refreshed
    /\ Len(beans) = 2 /\ Len(destroyerList) = 1
    /\ status[destroyerList[1]] = Resolved
    /\ \E c \in BeanIdx : status[c] = Deleted
    /\ configers = <<[cond |-> NoCond]>> /\ hist.ran = <<1>>

====
